---- MODULE Spec2Model ----
(***************************************************************************)
(* Model of Data-Config/generate_api_catalog.py: the Matcher               *)
(* (find_matching_services), the Validator (validate_keys), the schema     *)
(* path rewriting and the two passes of generate_api_catalog, driven by    *)
(* main; and of update_target_url.py (update_target_url).                  *)
(*                                                                         *)
(* Python strings that the code inspects (names, keys, schema locations,   *)
(* tags, function ids) are sequences of one-character strings.  A Python   *)
(* dict is a sequence of <<key, value>> pairs with distinct keys, in       *)
(* insertion order.  A JSON object is a function from its field names; a   *)
(* field that is absent is absent from the function's domain.              *)
(***************************************************************************)
EXTENDS Naturals, Sequences, FiniteSets, TLC

VARIABLES
    pc,                    \* position of main
    services_array,        \* services.json as loaded
    service_function_ids,  \* service_function_ids.json as loaded
    services_dict,         \* result of convert_services_to_dict
    vi,                    \* number of keys validate_keys has examined
    missing_keys,          \* validate_keys: the failure list
    matches,               \* the last result of find_matching_services
    valid,                 \* result of validate_keys: <<>> before it returns
    catalog,               \* generate_api_catalog: <<>> before it is built
    processed_services,    \* generate_api_catalog: the processed set
    gi,                    \* number of mapping keys pass 1 has handled
    si,                    \* number of registry items pass 2 has handled
    emitted,               \* history of the append calls on the catalog
    output_file,           \* api_catalog.json: <<>> while not written
    exit_status,           \* <<>> while running, else <<status>>
    original_schema,       \* schema path rewriting: base location
    function_id,           \* schema path rewriting: identifier
    modified_schema,       \* schema path rewriting: result, <<r>> once computed
    service_name,          \* find_matching_services: the key last looked up
    lines,                 \* update_target_url: the lines read from the file
    new_url,               \* update_target_url: the url to write
    li,                    \* update_target_url: number of lines handled
    new_lines,             \* update_target_url: the lines to write back
    in_target_url,         \* update_target_url: a target-url line was seen
    in_value_block,        \* update_target_url: a 'value: >-' line was seen
    updated,               \* update_target_url: a value was replaced
    file,                  \* update_target_url: the lines of the file at file_path
    returned               \* update_target_url: <<>> while running, else <<result>>

vars == << pc, services_array, service_function_ids, services_dict, vi,
           missing_keys, matches, valid, catalog, processed_services, gi, si,
           emitted, output_file, exit_status, original_schema, function_id,
           modified_schema, service_name, lines, new_url, li, new_lines,
           in_target_url, in_value_block, updated, file, returned >>

\* the state of generate_api_catalog.py and the state of update_target_url.py
catalogVars == << pc, services_array, service_function_ids, services_dict, vi,
                  missing_keys, matches, valid, catalog, processed_services, gi, si,
                  emitted, output_file, exit_status, original_schema, function_id,
                  modified_schema, service_name >>

updVars == << lines, new_url, li, new_lines, in_target_url, in_value_block, updated,
              file, returned >>

\* update_target_url has not been called
UpdateIdle ==
    /\ lines = <<>>
    /\ new_url = <<>>
    /\ li = 0
    /\ new_lines = <<>>
    /\ in_target_url = FALSE
    /\ in_value_block = FALSE
    /\ updated = FALSE
    /\ file = <<>>
    /\ returned = <<>>

(***************************************************************************)
(* Bounds of the model.                                                    *)
(***************************************************************************)
MaxServices == 2
MaxKeys == 3
MaxSchemaLen == 4

(***************************************************************************)
(* Python built-ins used by the code.                                      *)
(***************************************************************************)
\* d.get(field, default)
Get(d, field, default) == IF field \in DOMAIN d THEN d[field] ELSE default

\* key in d
DictHas(d, k) == \E i \in 1..Len(d) : d[i][1] = k

\* d[key]
DictGet(d, k) == d[CHOOSE i \in 1..Len(d) : d[i][1] = k][2]

\* d.keys()
DictKeys(d) == [i \in 1..Len(d) |-> d[i][1]]

\* d[key] = value: an existing key keeps its position, a new one goes last
DictSet(d, k, v) ==
    IF DictHas(d, k)
    THEN [i \in 1..Len(d) |-> IF d[i][1] = k THEN <<k, v>> ELSE d[i]]
    ELSE Append(d, <<k, v>>)

\* s.startswith(p)
StartsWith(s, p) == Len(s) >= Len(p) /\ SubSeq(s, 1, Len(p)) = p

\* c in s, for a one-character c
Contains(s, c) == \E i \in 1..Len(s) : s[i] = c

\* index of the last occurrence of c in s (c occurs in s)
LastIndex(s, c) ==
    CHOOSE i \in 1..Len(s) : s[i] = c /\ \A j \in (i+1)..Len(s) : s[j] # c

\* s.rsplit(c, 1) when c occurs in s
RSplit1(s, c) ==
    << SubSeq(s, 1, LastIndex(s, c) - 1), SubSeq(s, LastIndex(s, c) + 1, Len(s)) >>

UpperChars == << "A", "E", "O", "P", "R", "S", "T", "X" >>
LowerChars == << "a", "e", "o", "p", "r", "s", "t", "x" >>

\* s.lower()
LowerChar(c) ==
    IF \E i \in 1..Len(UpperChars) : UpperChars[i] = c
    THEN LowerChars[CHOOSE i \in 1..Len(UpperChars) : UpperChars[i] = c]
    ELSE c
Lower(s) == [i \in 1..Len(s) |-> LowerChar(s[i])]

(***************************************************************************)
(* convert_services_to_dict                                                *)
(***************************************************************************)
RECURSIVE ConvertFrom(_, _)
ConvertFrom(arr, d) ==
    IF arr = <<>> THEN d
    ELSE LET service == Head(arr)
             api_name == Get(service, "API Name", <<>>)
         IN  ConvertFrom(Tail(arr),
                         IF api_name # <<>> THEN DictSet(d, api_name, service) ELSE d)

\* variant: a name that is already in the dict keeps its first definition
RECURSIVE ConvertKeepFirstFrom(_, _)
ConvertKeepFirstFrom(arr, d) ==
    IF arr = <<>> THEN d
    ELSE LET service == Head(arr)
             api_name == Get(service, "API Name", <<>>)
         IN  ConvertKeepFirstFrom(Tail(arr),
                 IF api_name # <<>> /\ ~DictHas(d, api_name)
                 THEN DictSet(d, api_name, service) ELSE d)

convert_services_keep_first(arr) == ConvertKeepFirstFrom(arr, <<>>)

convert_services_to_dict(arr) == ConvertFrom(arr, <<>>)

(***************************************************************************)
(* find_matching_services                                                  *)
(***************************************************************************)
\* variant: the prefix matches are added to an exact match
find_matching_services_exact_plus_prefix(name, d) ==
    (IF DictHas(d, name) THEN << <<name, DictGet(d, name)>> >> ELSE <<>>)
    \o SelectSeq(d, LAMBDA item : StartsWith(item[1], name \o <<" ">>))

\* variant: the prefix test has no space boundary
find_matching_services_raw_prefix(name, d) ==
    IF DictHas(d, name)
    THEN << <<name, DictGet(d, name)>> >>
    ELSE SelectSeq(d, LAMBDA item : StartsWith(item[1], name))

find_matching_services(name, d) ==
    IF DictHas(d, name)
    THEN << <<name, DictGet(d, name)>> >>
    ELSE SelectSeq(d, LAMBDA item : StartsWith(item[1], name \o <<" ">>))

(***************************************************************************)
(* Schema path rewriting (generate_api_catalog, inner loop)                *)
(***************************************************************************)
\* variant: the filename is split at its first '.'
NewFilenameFirstDot(filename, fid) ==
    IF Contains(filename, ".")
    THEN LET p == CHOOSE i \in 1..Len(filename) :
                      filename[i] = "." /\ \A j \in 1..(i-1) : filename[j] # "."
         IN  SubSeq(filename, 1, p - 1) \o <<"-">> \o fid \o <<".">>
                 \o SubSeq(filename, p + 1, Len(filename))
    ELSE filename \o <<"-">> \o fid

NewFilename(filename, fid) ==
    IF Contains(filename, ".")
    THEN RSplit1(filename, ".")[1] \o <<"-">> \o fid \o <<".">> \o RSplit1(filename, ".")[2]
    ELSE filename \o <<"-">> \o fid

ModifiedSchema(schema, fid) ==
    IF schema # <<>>
    THEN LET path_part == IF Contains(schema, "/") THEN RSplit1(schema, "/")[1] ELSE <<>>
             filename  == IF Contains(schema, "/") THEN RSplit1(schema, "/")[2] ELSE schema
         IN  IF path_part # <<>>
             THEN path_part \o <<"/">> \o NewFilename(filename, fid)
             ELSE NewFilename(filename, fid)
    ELSE <<>>

(***************************************************************************)
(* generate_api_catalog: one catalog entry, the category rule, and the     *)
(* entries appended for one matched service.                               *)
(***************************************************************************)
api_entry(name, url, schema, tag) ==
    ("API Name" :> name) @@ ("Url" :> url) @@ ("Schema Location" :> schema) @@ ("tag" :> tag)

\* variant: the tag is taken as it is
TagOfUnchanged(service_info) == Get(service_info, "tag", <<>>)

\* tag = service_info.get("tag", "").lower()
TagOf(service_info) == Lower(Get(service_info, "tag", <<>>))

\* variant: a tag that is not rest falls to SOAP
CategoryDefaultSoap(tag) ==
    IF tag = <<"r", "e", "s", "t">> THEN "REST" ELSE "SOAP"

Category(tag) ==
    IF tag = <<"r", "e", "s", "t">> THEN "REST"
    ELSE IF tag = <<"s", "o", "a", "p">> THEN "SOAP"
    ELSE "REST"

\* variant: a key without function ids appends nothing
EntriesForSkipsEmpty(matched_service_name, service_info, function_ids) ==
    [i \in 1..Len(function_ids) |->
        api_entry(matched_service_name \o <<" ">> \o function_ids[i],
                  Get(service_info, "Url", ""),
                  ModifiedSchema(Get(service_info, "Schema Location", <<>>),
                                 function_ids[i]),
                  Lower(Get(service_info, "tag", <<>>)))]

\* variant: the append is outside the loop over function ids (last id only)
EntriesForLastOnly(matched_service_name, service_info, function_ids) ==
    IF function_ids = <<>>
    THEN << api_entry(matched_service_name,
                      Get(service_info, "Url", ""),
                      Get(service_info, "Schema Location", <<>>),
                      Lower(Get(service_info, "tag", <<>>))) >>
    ELSE << api_entry(matched_service_name \o <<" ">> \o function_ids[Len(function_ids)],
                      Get(service_info, "Url", ""),
                      ModifiedSchema(Get(service_info, "Schema Location", <<>>),
                                     function_ids[Len(function_ids)]),
                      Lower(Get(service_info, "tag", <<>>))) >>

\* the entries pass 1 appends for one match, in order
EntriesFor(matched_service_name, service_info, function_ids) ==
    IF function_ids = <<>>
    THEN << api_entry(matched_service_name,
                      Get(service_info, "Url", ""),
                      Get(service_info, "Schema Location", <<>>),
                      TagOf(service_info)) >>
    ELSE [i \in 1..Len(function_ids) |->
            api_entry(matched_service_name \o <<" ">> \o function_ids[i],
                      Get(service_info, "Url", ""),
                      ModifiedSchema(Get(service_info, "Schema Location", <<>>),
                                     function_ids[i]),
                      TagOf(service_info))]

\* the entry pass 2 appends for an unprocessed service
StandaloneEntry(name, service_info) ==
    api_entry(name,
              Get(service_info, "Url", ""),
              Get(service_info, "Schema Location", <<>>),
              TagOf(service_info))

\* if key not in catalog[category]: catalog[category][key] = []
EnsureGroup(cat, category, key) ==
    IF DictHas(cat[category], key) THEN cat
    ELSE [cat EXCEPT ![category] = DictSet(@, key, <<>>)]

\* catalog[category][key].append(e) for each e of entries
AppendEntries(cat, category, key, entries) ==
    [cat EXCEPT ![category] = DictSet(@, key, DictGet(@, key) \o entries)]

\* body of the loop over matches, for one match
ProcessMatch(cat, key, function_ids, match) ==
    LET category == Category(TagOf(match[2]))
    IN  AppendEntries(EnsureGroup(cat, category, key), category, key,
                      EntriesFor(match[1], match[2], function_ids))

RECURSIVE ProcessMatches(_, _, _, _)
ProcessMatches(cat, key, function_ids, ms) ==
    IF ms = <<>> THEN cat
    ELSE ProcessMatches(ProcessMatch(cat, key, function_ids, Head(ms)),
                        key, function_ids, Tail(ms))

\* body of the pass 2 loop, for one registry item
ProcessUnmapped(cat, item) ==
    LET category == Category(TagOf(item[2]))
    IN  AppendEntries(EnsureGroup(cat, category, item[1]), category, item[1],
                      << StandaloneEntry(item[1], item[2]) >>)

(***************************************************************************)
(* History of the append calls: which service and function id each         *)
(* appended entry was built from.  fid is <<>> for an entry without        *)
(* function id and <<f>> for one built for function id f.                  *)
(***************************************************************************)
MatchEvents(key, function_ids, match) ==
    LET entries == EntriesFor(match[1], match[2], function_ids)
    IN  [i \in 1..Len(entries) |->
            [pass |-> 1, category |-> Category(TagOf(match[2])), group |-> key,
             service |-> match[1],
             fid |-> IF function_ids = <<>> THEN <<>> ELSE << function_ids[i] >>,
             entry |-> entries[i]]]

RECURSIVE MatchesEvents(_, _, _)
MatchesEvents(key, function_ids, ms) ==
    IF ms = <<>> THEN <<>>
    ELSE MatchEvents(key, function_ids, Head(ms))
         \o MatchesEvents(key, function_ids, Tail(ms))

UnmappedEvent(item) ==
    [pass |-> 2, category |-> Category(TagOf(item[2])), group |-> item[1],
     service |-> item[1], fid |-> <<>>, entry |-> StandaloneEntry(item[1], item[2])]

(***************************************************************************)
(* Inputs: the services of services.json and the keys and function id      *)
(* lists of service_function_ids.json the model draws from.                *)
(***************************************************************************)
G   == << "G" >>
G_A == << "G", " ", "A" >>
G_B == << "G", " ", "B" >>
GA  == << "G", "A" >>

ServiceUniverse ==
    { ("API Name" :> G) @@ ("Url" :> "https://x")
          @@ ("Schema Location" :> << "s", "/", "c", ".", "x" >>)
          @@ ("tag" :> << "r", "e", "s", "t" >>),
      ("API Name" :> G_A) @@ ("Url" :> "https://ga")
          @@ ("Schema Location" :> << "c", ".", "x" >>)
          @@ ("tag" :> << "s", "o", "a", "p" >>),
      ("API Name" :> G_B) @@ ("Url" :> "https://gb")
          @@ ("tag" :> << "S", "o", "a", "p" >>),
      ("API Name" :> GA)
          @@ ("Schema Location" :> << "/", "c" >>),
      ("API Name" :> G_A) @@ ("Url" :> "https://dup")
          @@ ("Schema Location" :> << "d", ".", "e", "/", "c" >>)
          @@ ("tag" :> << "R", "E", "S", "T" >>),
      ("API Name" :> <<>>) @@ ("Url" :> "https://n")
          @@ ("Schema Location" :> << "c" >>)
          @@ ("tag" :> <<>>),
      ("API Name" :> G_B) @@ ("Url" :> "https://gb2")
          @@ ("Schema Location" :> << "c" >>)
          @@ ("tag" :> << "x" >>),
      ("API Name" :> GA) @@ ("Url" :> "https://ga2")
          @@ ("Schema Location" :> << "c", ".", "x" >>)
          @@ ("tag" :> <<>>) }

KeyUniverse == { G, G_A, GA }

FunctionIdLists ==
    { <<>>, << <<"4", "7">> >>, << <<"7">>, <<"7">>, <<"8">> >> }

\* sequences over S of length at most n
SeqsUpTo(S, n) == UNION { [1..k -> S] : k \in 0..n }

\* a JSON object loaded as a dict: its keys are distinct
Mappings ==
    { m \in SeqsUpTo(KeyUniverse \X FunctionIdLists, MaxKeys) :
        \A i, j \in 1..Len(m) : m[i][1] = m[j][1] => i = j }

(***************************************************************************)
(* main                                                                    *)
(***************************************************************************)
Init ==
    /\ pc = "convert"
    /\ services_array \in SeqsUpTo(ServiceUniverse, MaxServices)
    /\ service_function_ids \in Mappings
    /\ services_dict = <<>>
    /\ vi = 0
    /\ missing_keys = <<>>
    /\ matches = <<>>
    /\ valid = <<>>
    /\ catalog = <<>>
    /\ processed_services = {}
    /\ gi = 0
    /\ si = 0
    /\ emitted = <<>>
    /\ output_file = <<>>
    /\ exit_status = <<>>
    /\ original_schema = <<>>
    /\ function_id = <<>>
    /\ modified_schema = <<>>
    /\ service_name = <<>>
    /\ UpdateIdle

\* services_dict = convert_services_to_dict(services_array)
Convert ==
    /\ pc = "convert"
    /\ services_dict' = convert_services_to_dict(services_array)
    /\ pc' = "validate"
    /\ UNCHANGED << services_array, service_function_ids, vi, missing_keys, matches,
                    valid, catalog, processed_services, gi, si, emitted, output_file,
                    exit_status, original_schema, function_id, modified_schema,
                    service_name >>
    /\ UNCHANGED updVars

\* variant: the loop stops at the first key without a match
ValidateKeyFailFast ==
    /\ pc = "validate"
    /\ vi < Len(service_function_ids)
    /\ LET key == DictKeys(service_function_ids)[vi + 1]
           found == find_matching_services(key, services_dict)
       IN  /\ service_name' = key
           /\ matches' = found
           /\ missing_keys' = IF found = <<>> THEN Append(missing_keys, key)
                              ELSE missing_keys
           /\ vi' = IF found = <<>> THEN Len(service_function_ids) ELSE vi + 1
    /\ UNCHANGED << pc, services_array, service_function_ids, services_dict, valid,
                    catalog, processed_services, gi, si, emitted, output_file,
                    exit_status, original_schema, function_id, modified_schema >>
    /\ UNCHANGED updVars

\* validate_keys: one iteration of the loop over the keys
ValidateKey ==
    /\ pc = "validate"
    /\ vi < Len(service_function_ids)
    /\ LET key == DictKeys(service_function_ids)[vi + 1]
           found == find_matching_services(key, services_dict)
       IN  /\ service_name' = key
           /\ matches' = found
           /\ missing_keys' = IF found = <<>> THEN Append(missing_keys, key)
                              ELSE missing_keys
    /\ vi' = vi + 1
    /\ UNCHANGED << pc, services_array, service_function_ids, services_dict, valid,
                    catalog, processed_services, gi, si, emitted, output_file,
                    exit_status, original_schema, function_id, modified_schema >>
    /\ UNCHANGED updVars

\* validate_keys: the return after the loop
ValidateReturn ==
    /\ pc = "validate"
    /\ vi = Len(service_function_ids)
    /\ valid' = << missing_keys = <<>> >>
    /\ pc' = "validated"
    /\ UNCHANGED << services_array, service_function_ids, services_dict, vi,
                    missing_keys, matches, catalog, processed_services, gi, si,
                    emitted, output_file, exit_status, original_schema, function_id,
                    modified_schema, service_name >>
    /\ UNCHANGED updVars

\* main: if not validate_keys(...): sys.exit(1)
MainExit ==
    /\ pc = "validated"
    /\ valid = << FALSE >>
    /\ exit_status' = << 1 >>
    /\ pc' = "exit"
    /\ UNCHANGED << services_array, service_function_ids, services_dict, vi,
                    missing_keys, matches, valid, catalog, processed_services, gi, si,
                    emitted, output_file, original_schema, function_id,
                    modified_schema, service_name >>
    /\ UNCHANGED updVars

\* variant: the result of validate_keys is only a warning
MainGenerateUnchecked ==
    /\ pc = "validated"
    /\ catalog' = [REST |-> <<>>, SOAP |-> <<>>]
    /\ processed_services' = {}
    /\ pc' = "pass1"
    /\ UNCHANGED << services_array, service_function_ids, services_dict, vi,
                    missing_keys, matches, valid, gi, si, emitted, output_file,
                    exit_status, original_schema, function_id, modified_schema,
                    service_name >>
    /\ UNCHANGED updVars

\* main calls generate_api_catalog, which builds the empty catalog and set
MainGenerate ==
    /\ pc = "validated"
    /\ valid = << TRUE >>
    /\ catalog' = [REST |-> <<>>, SOAP |-> <<>>]
    /\ processed_services' = {}
    /\ pc' = "pass1"
    /\ UNCHANGED << services_array, service_function_ids, services_dict, vi,
                    missing_keys, matches, valid, gi, si, emitted, output_file,
                    exit_status, original_schema, function_id, modified_schema,
                    service_name >>
    /\ UNCHANGED updVars

\* variant: the mapping key, not the matched service, is marked processed
Pass1KeyMarksKey ==
    /\ pc = "pass1"
    /\ gi < Len(service_function_ids)
    /\ LET key == service_function_ids[gi + 1][1]
           function_ids == service_function_ids[gi + 1][2]
           found == find_matching_services(key, services_dict)
       IN  /\ service_name' = key
           /\ matches' = found
           /\ processed_services' =
                  IF found = <<>> THEN processed_services ELSE processed_services \cup { key }
           /\ catalog' = ProcessMatches(catalog, key, function_ids, found)
           /\ emitted' = emitted \o MatchesEvents(key, function_ids, found)
    /\ gi' = gi + 1
    /\ UNCHANGED << pc, services_array, service_function_ids, services_dict, vi,
                    missing_keys, valid, si, output_file, exit_status,
                    original_schema, function_id, modified_schema >>
    /\ UNCHANGED updVars

\* generate_api_catalog: one iteration of the first loop (one mapping key)
Pass1Key ==
    /\ pc = "pass1"
    /\ gi < Len(service_function_ids)
    /\ LET key == service_function_ids[gi + 1][1]
           function_ids == service_function_ids[gi + 1][2]
           found == find_matching_services(key, services_dict)
       IN  /\ service_name' = key
           /\ matches' = found
           /\ processed_services' =
                  processed_services \cup { found[i][1] : i \in 1..Len(found) }
           /\ catalog' = ProcessMatches(catalog, key, function_ids, found)
           /\ emitted' = emitted \o MatchesEvents(key, function_ids, found)
    /\ gi' = gi + 1
    /\ UNCHANGED << pc, services_array, service_function_ids, services_dict, vi,
                    missing_keys, valid, si, output_file, exit_status,
                    original_schema, function_id, modified_schema >>
    /\ UNCHANGED updVars

\* variant: the second loop may start before the first is over
Pass1DoneEarly ==
    /\ pc = "pass1"
    /\ pc' = "pass2"
    /\ UNCHANGED << services_array, service_function_ids, services_dict, vi,
                    missing_keys, matches, valid, catalog, processed_services, gi, si,
                    emitted, output_file, exit_status, original_schema, function_id,
                    modified_schema, service_name >>
    /\ UNCHANGED updVars

\* generate_api_catalog: the first loop is over, the second starts
Pass1Done ==
    /\ pc = "pass1"
    /\ gi = Len(service_function_ids)
    /\ pc' = "pass2"
    /\ UNCHANGED << services_array, service_function_ids, services_dict, vi,
                    missing_keys, matches, valid, catalog, processed_services, gi, si,
                    emitted, output_file, exit_status, original_schema, function_id,
                    modified_schema, service_name >>
    /\ UNCHANGED updVars

\* variant: the second loop does not consult the processed set
Pass2ServiceAll ==
    /\ pc = "pass2"
    /\ si < Len(services_dict)
    /\ catalog' = ProcessUnmapped(catalog, services_dict[si + 1])
    /\ emitted' = Append(emitted, UnmappedEvent(services_dict[si + 1]))
    /\ si' = si + 1
    /\ UNCHANGED << pc, services_array, service_function_ids, services_dict, vi,
                    missing_keys, matches, valid, processed_services, gi, output_file,
                    exit_status, original_schema, function_id, modified_schema,
                    service_name >>
    /\ UNCHANGED updVars

\* generate_api_catalog: one iteration of the second loop (one registry item)
Pass2Service ==
    /\ pc = "pass2"
    /\ si < Len(services_dict)
    /\ LET item == services_dict[si + 1]
       IN  IF item[1] \notin processed_services
           THEN /\ catalog' = ProcessUnmapped(catalog, item)
                /\ emitted' = Append(emitted, UnmappedEvent(item))
           ELSE UNCHANGED << catalog, emitted >>
    /\ si' = si + 1
    /\ UNCHANGED << pc, services_array, service_function_ids, services_dict, vi,
                    missing_keys, matches, valid, processed_services, gi, output_file,
                    exit_status, original_schema, function_id, modified_schema,
                    service_name >>
    /\ UNCHANGED updVars

\* generate_api_catalog writes the output file; main returns
WriteOutput ==
    /\ pc = "pass2"
    /\ si = Len(services_dict)
    /\ output_file' = << catalog >>
    /\ exit_status' = << 0 >>
    /\ pc' = "done"
    /\ UNCHANGED << services_array, service_function_ids, services_dict, vi,
                    missing_keys, matches, valid, catalog, processed_services, gi, si,
                    emitted, original_schema, function_id, modified_schema,
                    service_name >>
    /\ UNCHANGED updVars

Next ==
    \/ Convert
    \/ ValidateKey
    \/ ValidateReturn
    \/ MainExit
    \/ MainGenerate
    \/ Pass1Key
    \/ Pass1Done
    \/ Pass2Service
    \/ WriteOutput

Spec == Init /\ [][Next]_vars

(***************************************************************************)
(* The schema path rewriting on its own: the base location ranges over     *)
(* the strings of '/', '.' and a letter up to MaxSchemaLen, and the        *)
(* documented examples.                                                    *)
(***************************************************************************)
SchemaChars == { "c", "/", "." }

ExampleSchemas ==
    { << "a", "/", "b", "/", "c", ".", "x", "s", "d" >>,
      << "c", ".", "x", "s", "d" >>,
      << "s", "/", "l", "o", "v", ".", "x", "s", "d" >> }

FunctionIdUniverse == { << "7" >>, << "0", "0", "7" >>, << "4", ".", "7" >> }

InitRewriter ==
    /\ pc = "rewrite"
    /\ original_schema \in SeqsUpTo(SchemaChars, MaxSchemaLen) \cup ExampleSchemas
    /\ function_id \in FunctionIdUniverse
    /\ modified_schema = <<>>
    /\ services_array = <<>>
    /\ service_function_ids = <<>>
    /\ services_dict = <<>>
    /\ vi = 0
    /\ missing_keys = <<>>
    /\ matches = <<>>
    /\ valid = <<>>
    /\ catalog = <<>>
    /\ processed_services = {}
    /\ gi = 0
    /\ si = 0
    /\ emitted = <<>>
    /\ output_file = <<>>
    /\ exit_status = <<>>
    /\ service_name = <<>>
    /\ UpdateIdle

\* the body of the loop over function_ids up to modified_schema
Rewrite ==
    /\ pc = "rewrite"
    /\ modified_schema' = << ModifiedSchema(original_schema, function_id) >>
    /\ pc' = "rewritten"
    /\ UNCHANGED << services_array, service_function_ids, services_dict, vi,
                    missing_keys, matches, valid, catalog, processed_services, gi, si,
                    emitted, output_file, exit_status, original_schema, function_id,
                    service_name >>
    /\ UNCHANGED updVars

NextRewriter == Rewrite

SpecRewriter == InitRewriter /\ [][NextRewriter]_vars

(***************************************************************************)
(* Notions the properties are stated with.                                 *)
(***************************************************************************)
MappingKeys == { service_function_ids[i][1] : i \in 1..Len(service_function_ids) }

RegistryNames == { services_dict[i][1] : i \in 1..Len(services_dict) }

\* the definition the registry holds for a name
Def(name) == services_dict[CHOOSE i \in 1..Len(services_dict) : services_dict[i][1] = name][2]

\* a key resolves: it is a service name, or some name continues it after a space
Resolves(key) ==
    \/ key \in RegistryNames
    \/ \E n \in RegistryNames :
          /\ Len(n) > Len(key)
          /\ \A j \in 1..Len(key) : n[j] = key[j]
          /\ n[Len(key) + 1] = " "

Range(seq) == { seq[i] : i \in 1..Len(seq) }

\* the validator has returned
Validated == pc \in { "validated", "exit", "pass1", "pass2", "done" }

\* generate_api_catalog has been entered
InGenerate == pc \in { "pass1", "pass2", "done" }

(***************************************************************************)
(* C1: the Validator runs over the whole mapping before the Catalog        *)
(* Builder starts; with an unresolved key the run ends with exit status 1  *)
(* and never enters generate_api_catalog (no catalog, no append, no output *)
(* file); the Catalog Builder runs only after the Validator returned pass. *)
(***************************************************************************)
C1_ValidateBeforeGenerate ==
    /\ (InGenerate \/ catalog # <<>> \/ emitted # <<>> \/ output_file # <<>> \/ gi > 0 \/ si > 0)
          => /\ valid = << TRUE >>
             /\ vi = Len(service_function_ids)
             /\ \A k \in MappingKeys : Resolves(k)
    /\ (Validated /\ \E k \in MappingKeys : ~Resolves(k))
          => /\ pc \in { "validated", "exit" }
             /\ valid = << FALSE >>
             /\ catalog = <<>> /\ emitted = <<>> /\ output_file = <<>>
             /\ pc = "validated" => (ENABLED MainExit /\ ~ENABLED MainGenerate)
             /\ pc = "exit" => exit_status = << 1 >>
    /\ exit_status = << 1 >> => (pc = "exit" /\ \E k \in MappingKeys : ~Resolves(k))
    /\ exit_status = << 0 >> => (pc = "done" /\ output_file = << catalog >>)

\* a run aborted with one key resolved and another not
C1_Witness ==
    /\ pc = "exit"
    /\ exit_status = << 1 >>
    /\ \E k \in MappingKeys : Resolves(k)
    /\ \E k \in MappingKeys : ~Resolves(k)

(***************************************************************************)
(* C2: validate_keys examines every key; its failure list holds exactly    *)
(* the keys for which the Matcher returns the empty list, each once, and   *)
(* the result is pass exactly when the list is empty.                      *)
(***************************************************************************)
C2_FailureListExact ==
    /\ Validated =>
          /\ vi = Len(service_function_ids)
          /\ Range(missing_keys) = { k \in MappingKeys : ~Resolves(k) }
          /\ \A i, j \in 1..Len(missing_keys) : missing_keys[i] = missing_keys[j] => i = j
          /\ valid = << missing_keys = <<>> >>
    /\ pc = "validate" =>
          Range(missing_keys) =
              { service_function_ids[i][1] : i \in { j \in 1..vi : ~Resolves(service_function_ids[j][1]) } }

\* keys G, GA, G A with only GA in the registry: the failure list is G, G A
C2_Witness ==
    /\ Validated
    /\ DictKeys(service_function_ids) = << G, GA, G_A >>
    /\ RegistryNames = { GA }
    /\ missing_keys = << G, G_A >>
    /\ valid = << FALSE >>

(***************************************************************************)
(* C3: when the key looked up equals the name of a service S, the Matcher  *)
(* returns the one-element list [(S, def(S))], also when other services    *)
(* have names that start with the key followed by a space.                 *)
(***************************************************************************)
LookedUp == vi > 0 \/ gi > 0

C3_ExactMatchOnly ==
    (LookedUp /\ service_name \in RegistryNames)
        => matches = << << service_name, Def(service_name) >> >>

\* the key G is a service name and G A is in the registry too
C3_Witness ==
    /\ LookedUp
    /\ service_name = G
    /\ RegistryNames = { G, G_A }
    /\ Len(matches) = 1

(***************************************************************************)
(* C4: when the key looked up equals no service name, the Matcher returns  *)
(* the services whose names start with the key followed by one space, in   *)
(* registry order, and none whose name only starts with the key itself;    *)
(* the result is empty when there is no such service.                      *)
(***************************************************************************)
SpacePrefixed(key, n) ==
    /\ Len(n) > Len(key)
    /\ \A j \in 1..Len(key) : n[j] = key[j]
    /\ n[Len(key) + 1] = " "

C4_PrefixMatches ==
    (LookedUp /\ service_name \notin RegistryNames)
        => /\ Range(matches) = { services_dict[i] : i \in { j \in 1..Len(services_dict) :
                                     SpacePrefixed(service_name, services_dict[j][1]) } }
           /\ \A a, b \in 1..Len(matches) : a < b =>
                 \E i, j \in 1..Len(services_dict) :
                    i < j /\ services_dict[i] = matches[a] /\ services_dict[j] = matches[b]
           /\ (~\E n \in RegistryNames : SpacePrefixed(service_name, n)) => matches = <<>>

\* the key G with the registry GA, G A: only G A is returned
C4_Witness ==
    /\ LookedUp
    /\ service_name = G
    /\ DictKeys(services_dict) = << GA, G_A >>
    /\ Len(matches) = 1
    /\ matches[1][1] = G_A

\* the key G with the registry G B, G A: both are returned, in registry order
C4_WitnessOrder ==
    /\ LookedUp
    /\ service_name = G
    /\ DictKeys(services_dict) = << G_B, G_A >>
    /\ Len(matches) = 2

(***************************************************************************)
(* C5: the schema path rewriting.  An empty base location gives the empty  *)
(* result; otherwise the filename (the text after the last '/') is split   *)
(* at its last '.', and the result ends with stem-functionId.extension     *)
(* when the filename has a '.', and with filename-functionId when not.  A  *)
(* '.' in the directory part is no separator.                              *)
(***************************************************************************)
EndsWith(r, x) == Len(r) >= Len(x) /\ SubSeq(r, Len(r) - Len(x) + 1, Len(r)) = x

\* k is the position of the last '/' of s, or 0 when s has none
LastSlash(s, k) ==
    /\ k \in 0..Len(s)
    /\ k > 0 => s[k] = "/"
    /\ \A j \in (k+1)..Len(s) : s[j] # "/"

\* the filename fn with the identifier f before its last '.'
ExpectedFilename(fn, f) ==
    IF \E p \in 1..Len(fn) : fn[p] = "."
    THEN LET p == CHOOSE q \in 1..Len(fn) : fn[q] = "." /\ \A j \in (q+1)..Len(fn) : fn[j] # "."
         IN  SubSeq(fn, 1, p - 1) \o << "-" >> \o f \o << "." >> \o SubSeq(fn, p + 1, Len(fn))
    ELSE fn \o << "-" >> \o f

C5_SchemaRewriting ==
    modified_schema # <<>> =>
        LET r == modified_schema[1]
            s == original_schema
            f == function_id
        IN  /\ s = <<>> => r = <<>>
            /\ s # <<>> => \A k \in 0..Len(s) :
                  LastSlash(s, k) => EndsWith(r, ExpectedFilename(SubSeq(s, k + 1, Len(s)), f))
            /\ (s = << "a", "/", "b", "/", "c", ".", "x", "s", "d" >> /\ f = << "0", "0", "7" >>)
                  => r = << "a", "/", "b", "/", "c", "-", "0", "0", "7", ".", "x", "s", "d" >>
            /\ (s = << "c", ".", "x", "s", "d" >> /\ f = << "0", "0", "7" >>)
                  => r = << "c", "-", "0", "0", "7", ".", "x", "s", "d" >>
            /\ (s = << "c" >> /\ f = << "0", "0", "7" >>)
                  => r = << "c", "-", "0", "0", "7" >>

\* ./c with the identifier 7: the '.' of the directory part is kept as it is
C5_Witness ==
    /\ original_schema = << ".", "/", "c" >>
    /\ function_id = << "7" >>
    /\ modified_schema = << << ".", "/", "c", "-", "7" >> >>

\* c..c with the identifier 7: only the last '.' separates the extension
C5_WitnessDots ==
    /\ original_schema = << "c", ".", ".", "c" >>
    /\ modified_schema = << << "c", ".", "-", "7", ".", "c" >> >>

(***************************************************************************)
(* C6: the rewriting preserves the directory structure: for every base     *)
(* location with a '/', the result is the text before the last '/', then   *)
(* '/', then the new filename; the result is the new filename alone only   *)
(* when the base location has no '/'.                                      *)
(***************************************************************************)
C6_DirectoryPreserved ==
    (modified_schema # <<>> /\ original_schema # <<>>) =>
        \A k \in 0..Len(original_schema) :
            LastSlash(original_schema, k) =>
                modified_schema[1] =
                    SubSeq(original_schema, 1, k)
                    \o ExpectedFilename(SubSeq(original_schema, k + 1, Len(original_schema)),
                                        function_id)

(***************************************************************************)
(* The catalog and the history of its append calls: each group holds, in   *)
(* order, the entries of the calls made on it.                             *)
(***************************************************************************)
Categories == { "REST", "SOAP" }

EventsIn(c, g) == SelectSeq(emitted, LAMBDA e : e.category = c /\ e.group = g)

HistoryMatchesCatalog ==
    catalog # <<>> =>
        /\ \A c \in Categories : \A i \in 1..Len(catalog[c]) :
              LET ev == EventsIn(c, catalog[c][i][1])
              IN  catalog[c][i][2] = [j \in 1..Len(ev) |-> ev[j].entry]
        /\ \A e \in Range(emitted) : DictHas(catalog[e.category], e.group)

\* the groups (category, group key) that hold an entry built from service S
GroupsWith(S) == { << e.category, e.group >> : e \in { x \in Range(emitted) : x.service = S } }

\* the mapping keys that resolve to the service S
KeysResolvingTo(S) ==
    { k \in MappingKeys : k = S \/ (k \notin RegistryNames /\ SpacePrefixed(k, S)) }

GroupLen(c, g) == IF DictHas(catalog[c], g) THEN Len(DictGet(catalog[c], g)) ELSE 0

(***************************************************************************)
(* C7, as claimed: in the final catalog every service definition of the    *)
(* registry appears in exactly one group: under one matched key or         *)
(* standalone, never both and never under two group keys.                  *)
(***************************************************************************)
C7_ExactlyOneGroup ==
    pc = "done" =>
        /\ HistoryMatchesCatalog
        /\ \A S \in RegistryNames : Cardinality(GroupsWith(S)) = 1

(***************************************************************************)
(* C7, amended: in the final catalog every service definition of the       *)
(* registry appears either under each mapping key that resolves to it (one *)
(* group per such key, all in one category, so under several group keys    *)
(* when several keys resolve to it), or, when no key resolves to it, once  *)
(* as a standalone entry in the group of its own name; never both.         *)
(***************************************************************************)
C7_OncePerResolvingKey ==
    pc = "done" =>
        /\ HistoryMatchesCatalog
        /\ \A S \in RegistryNames :
              IF KeysResolvingTo(S) = {}
              THEN /\ Cardinality({ i \in 1..Len(emitted) : emitted[i].service = S }) = 1
                   /\ \A e \in Range(emitted) : e.service = S => (e.pass = 2 /\ e.group = S)
              ELSE /\ \E c \in Categories :
                         GroupsWith(S) = { << c, k >> : k \in KeysResolvingTo(S) }
                   /\ \A e \in Range(emitted) : e.service = S => e.pass = 1

\* G A is under the keys G and G A, and GA is standalone
C7_Witness ==
    /\ pc = "done"
    /\ RegistryNames = { G_A, GA }
    /\ Cardinality(GroupsWith(G_A)) = 2
    /\ \E e \in Range(emitted) : e.service = GA /\ e.pass = 2

(***************************************************************************)
(* C8: completeness.  In the final catalog every service of the registry   *)
(* is the origin of at least one entry, and the number of distinct         *)
(* services the entries originate from equals the registry size.           *)
(***************************************************************************)
C8_Completeness ==
    pc = "done" =>
        /\ HistoryMatchesCatalog
        /\ output_file = << catalog >>
        /\ \A S \in RegistryNames :
              \E e \in Range(emitted) :
                 /\ e.service = S
                 /\ e.entry \in Range(DictGet(catalog[e.category], e.group))
        /\ Cardinality({ e.service : e \in Range(emitted) }) = Len(services_dict)

\* a registry of two services, both matched by the key G without function ids
C8_Witness ==
    /\ pc = "done"
    /\ RegistryNames = { G_A, G_B }
    /\ service_function_ids = << << G, <<>> >> >>
    /\ \A e \in Range(emitted) : e.pass = 1

(***************************************************************************)
(* C9: for every key pass 1 has handled, with N function ids: each service *)
(* the key matches has exactly N entries in the key's groups, one per      *)
(* function id in the given order, or exactly one entry when N = 0; the    *)
(* key's groups of both categories hold that many entries per match.       *)
(***************************************************************************)
C9_EntriesPerMatch ==
    InGenerate =>
        \A i \in 1..gi :
            LET k == service_function_ids[i][1]
                fids == service_function_ids[i][2]
                matched == { S \in RegistryNames : k \in KeysResolvingTo(S) }
                perMatch == IF Len(fids) = 0 THEN 1 ELSE Len(fids)
            IN  /\ GroupLen("REST", k) + GroupLen("SOAP", k) = Cardinality(matched) * perMatch
                /\ \A S \in matched :
                      LET ev == SelectSeq(emitted, LAMBDA e : e.group = k /\ e.service = S)
                      IN  /\ Len(ev) = perMatch
                          /\ \A j \in 1..Len(ev) :
                                /\ ev[j].pass = 1
                                /\ ev[j].fid = IF Len(fids) = 0 THEN <<>> ELSE << fids[j] >>

\* the key G with three function ids matches a SOAP and a REST service
C9_Witness ==
    /\ InGenerate
    /\ gi >= 1
    /\ service_function_ids[1] = << G, << <<"7">>, <<"7">>, <<"8">> >> >>
    /\ GroupLen("REST", G) = 3
    /\ GroupLen("SOAP", G) = 3

(***************************************************************************)
(* C10, as claimed: every catalog entry carries the url and the tag of its *)
(* service definition unmodified, whatever the tag's letter case; its name *)
(* and schema location are the service name and location, or name + ' ' +  *)
(* function id and the rewritten location when built for a function id.    *)
(***************************************************************************)
NameAndSchemaAsBuilt(e) ==
    IF e.fid = <<>>
    THEN /\ e.entry["API Name"] = e.service
         /\ e.entry["Schema Location"] = Get(Def(e.service), "Schema Location", <<>>)
    ELSE /\ e.entry["API Name"] = e.service \o << " " >> \o e.fid[1]
         /\ e.entry["Schema Location"] =
               ModifiedSchema(Get(Def(e.service), "Schema Location", <<>>), e.fid[1])

C10_UrlAndTagUnmodified ==
    /\ HistoryMatchesCatalog
    /\ \A e \in Range(emitted) :
          /\ e.entry["Url"] = Get(Def(e.service), "Url", "")
          /\ e.entry["tag"] = Get(Def(e.service), "tag", <<>>)
          /\ NameAndSchemaAsBuilt(e)

(***************************************************************************)
(* C10, amended: every catalog entry carries the url of its service        *)
(* definition unmodified and the definition's tag converted to lower case  *)
(* (the empty string when the tag is absent); name and schema location as  *)
(* claimed.  The documented example gives the documented catalog.          *)
(***************************************************************************)
IsLowerCaseOf(t, orig) ==
    /\ Len(t) = Len(orig)
    /\ \A i \in 1..Len(t) :
          /\ t[i] \notin Range(UpperChars)
          /\ \/ t[i] = orig[i]
             \/ \E j \in 1..Len(UpperChars) : orig[i] = UpperChars[j] /\ t[i] = LowerChars[j]

C10_UrlUnmodifiedTagLowered ==
    /\ HistoryMatchesCatalog
    /\ \A e \in Range(emitted) :
          /\ e.entry["Url"] = Get(Def(e.service), "Url", "")
          /\ IsLowerCaseOf(e.entry["tag"], Get(Def(e.service), "tag", <<>>))
          /\ NameAndSchemaAsBuilt(e)
          /\ DOMAIN e.entry = { "API Name", "Url", "Schema Location", "tag" }
    /\ ( /\ pc = "done"
         /\ services_array = << ("API Name" :> G) @@ ("Url" :> "https://x")
                                  @@ ("Schema Location" :> << "s", "/", "c", ".", "x" >>)
                                  @@ ("tag" :> << "r", "e", "s", "t" >>) >>
         /\ service_function_ids = << << G, << << "4", "7" >> >> >> >> )
       => /\ catalog.SOAP = <<>>
          /\ catalog.REST =
               << << G, << ("API Name" :> << "G", " ", "4", "7" >>) @@ ("Url" :> "https://x")
                            @@ ("Schema Location" :> << "s", "/", "c", "-", "4", "7", ".", "x" >>)
                            @@ ("tag" :> << "r", "e", "s", "t" >>) >> >> >>

\* an entry built for a function id from a definition tagged Soap
C10_Witness ==
    \E e \in Range(emitted) :
        /\ e.fid # <<>>
        /\ Get(Def(e.service), "tag", <<>>) = << "S", "o", "a", "p" >>
        /\ e.entry["tag"] = << "s", "o", "a", "p" >>
        /\ e.entry["Url"] = "https://gb"

(***************************************************************************)
(* C11: the category of every entry is a function of the tag of its        *)
(* service definition alone: SOAP exactly when the tag is 'soap' compared  *)
(* without regard to letter case, REST for every other tag (rest in any    *)
(* case, empty, absent, unrecognised), in pass 1 and in pass 2 alike; the  *)
(* entry is stored under that category and no other.                       *)
(***************************************************************************)
\* t and w are equal up to the case of their letters
SameIgnoringCase(t, w) ==
    /\ Len(t) = Len(w)
    /\ \A i \in 1..Len(t) :
          \/ t[i] = w[i]
          \/ \E j \in 1..Len(UpperChars) :
                { t[i], w[i] } = { UpperChars[j], LowerChars[j] }

ExpectedCategory(S) ==
    IF "tag" \in DOMAIN Def(S) /\ SameIgnoringCase(Def(S)["tag"], << "s", "o", "a", "p" >>)
    THEN "SOAP"
    ELSE "REST"

C11_CategoryFromTag ==
    /\ HistoryMatchesCatalog
    /\ \A e \in Range(emitted) : e.category = ExpectedCategory(e.service)
    /\ catalog # <<>> =>
          \A c \in Categories : \A i \in 1..Len(catalog[c]) :
              \A j \in 1..Len(catalog[c][i][2]) :
                  \E e \in Range(emitted) :
                      /\ e.entry = catalog[c][i][2][j]
                      /\ e.group = catalog[c][i][1]
                      /\ ExpectedCategory(e.service) = c

\* Soap, matched in pass 1, is under SOAP; the empty tag, in pass 2, under REST
C11_Witness ==
    /\ pc = "done"
    /\ \E e \in Range(emitted) :
          /\ e.pass = 1 /\ e.category = "SOAP"
          /\ Get(Def(e.service), "tag", <<>>) = << "S", "o", "a", "p" >>
    /\ \E e \in Range(emitted) :
          /\ e.pass = 2 /\ e.category = "REST"
          /\ "tag" \in DOMAIN Def(e.service) /\ Def(e.service)["tag"] = <<>>

\* REST in capitals, an unrecognised tag and an absent tag are all under REST
C11_WitnessOthers ==
    /\ \E e \in Range(emitted) :
          e.category = "REST" /\ Get(Def(e.service), "tag", <<>>) = << "R", "E", "S", "T" >>
    /\ \E e \in Range(emitted) :
          e.category = "REST" /\ Get(Def(e.service), "tag", <<>>) = << "x" >>

(***************************************************************************)
(* C12: no key is dropped silently.  A run that completes has, for every   *)
(* mapping key, a group keyed by it, in at least one category, with at     *)
(* least one entry, also in the file written; every other run that ends    *)
(* is a fatal abort.                                                       *)
(***************************************************************************)
C12_NoKeyDropped ==
    /\ pc = "done" =>
          /\ output_file = << catalog >>
          /\ \A k \in MappingKeys :
                \E c \in Categories :
                    /\ DictHas(output_file[1][c], k)
                    /\ Len(DictGet(output_file[1][c], k)) >= 1
    /\ (exit_status # <<>> /\ pc # "done") =>
          (pc = "exit" /\ exit_status = << 1 >> /\ output_file = <<>>)
    /\ (\E k \in MappingKeys : ~Resolves(k)) => pc # "done"

\* a completed run with the key G resolved by prefix only, without function ids
C12_Witness ==
    /\ pc = "done"
    /\ G \notin RegistryNames
    /\ \E i \in 1..Len(service_function_ids) : service_function_ids[i] = << G, <<>> >>
    /\ Len(service_function_ids) >= 2
    /\ GroupLen("REST", G) + GroupLen("SOAP", G) >= 1

(***************************************************************************)
(* C13, as claimed: within every group no two entries originate from the   *)
(* same (service definition, function id) pair, for every mapping.         *)
(***************************************************************************)
C13_NoRepeatedPair ==
    \A c \in Categories : \A g \in MappingKeys \cup RegistryNames :
        \A a, b \in 1..Len(EventsIn(c, g)) :
            (EventsIn(c, g)[a].service = EventsIn(c, g)[b].service
             /\ EventsIn(c, g)[a].fid = EventsIn(c, g)[b].fid) => a = b

(***************************************************************************)
(* C13, amended: within every group a service definition contributes one   *)
(* entry per occurrence of a function id in the key's functionIds list:    *)
(* the entries of a group that originate from the pair (service, id) are   *)
(* as many as the id occurs in the list, so exactly one when the list      *)
(* does not repeat the id, and exactly one for an entry without id.        *)
(***************************************************************************)
Occurrences(seq, x) == Cardinality({ i \in 1..Len(seq) : seq[i] = x })

C13_OneEntryPerOccurrence ==
    /\ HistoryMatchesCatalog
    /\ \A e \in Range(emitted) :
          LET same == { i \in 1..Len(emitted) :
                          /\ emitted[i].category = e.category
                          /\ emitted[i].group = e.group
                          /\ emitted[i].service = e.service
                          /\ emitted[i].fid = e.fid }
          IN  IF e.fid = <<>>
              THEN Cardinality(same) = 1
              ELSE /\ e.pass = 1
                   /\ Cardinality(same) =
                         Occurrences(DictGet(service_function_ids, e.group), e.fid[1])

\* the list 7, 7, 8 gives two entries of one group from the same service and id
C13_Witness ==
    \E i, j \in 1..Len(emitted) :
        /\ i < j
        /\ emitted[i].group = emitted[j].group
        /\ emitted[i].category = emitted[j].category
        /\ emitted[i].service = emitted[j].service
        /\ emitted[i].fid = << << "7" >> >>
        /\ emitted[j].fid = << << "7" >> >>
        /\ emitted[i].entry = emitted[j].entry

(***************************************************************************)
(* C14: the registry lookup has unique names; of several definitions with  *)
(* the same name the last one of the services array is the one the         *)
(* Matcher returns and the Catalog Builder builds entries from, and the    *)
(* earlier ones contribute nothing.                                        *)
(***************************************************************************)
NameAt(i) == Get(services_array[i], "API Name", <<>>)

\* the last definition of the services array with the name n
LastDefinition(n) ==
    services_array[CHOOSE i \in 1..Len(services_array) :
                      NameAt(i) = n /\ \A j \in (i+1)..Len(services_array) : NameAt(j) # n]

C14_LastDefinitionWins ==
    pc # "convert" =>
        /\ \A i, j \in 1..Len(services_dict) :
              services_dict[i][1] = services_dict[j][1] => i = j
        /\ RegistryNames = { NameAt(i) : i \in 1..Len(services_array) } \ { <<>> }
        /\ \A i \in 1..Len(services_dict) :
              services_dict[i][2] = LastDefinition(services_dict[i][1])
        /\ \A i \in 1..Len(matches) : matches[i][2] = LastDefinition(matches[i][1])
        /\ \A e \in Range(emitted) :
              /\ e.entry["Url"] = Get(LastDefinition(e.service), "Url", "")
              /\ IsLowerCaseOf(e.entry["tag"], Get(LastDefinition(e.service), "tag", <<>>))
              /\ e.entry["Schema Location"] =
                    IF e.fid = <<>>
                    THEN Get(LastDefinition(e.service), "Schema Location", <<>>)
                    ELSE ModifiedSchema(Get(LastDefinition(e.service), "Schema Location", <<>>),
                                        e.fid[1])
        /\ pc = "done" => Len(emitted) >= Len(services_dict)

\* two definitions named G A: the catalog holds one entry, built from the second
C14_Witness ==
    /\ pc = "done"
    /\ Len(services_array) = 2
    /\ NameAt(1) = G_A /\ NameAt(2) = G_A
    /\ services_array[1]["Url"] = "https://ga"
    /\ services_array[2]["Url"] = "https://dup"
    /\ service_function_ids = <<>>
    /\ Len(emitted) = 1
    /\ emitted[1].entry["Url"] = "https://dup"
    /\ catalog.SOAP = <<>>

(***************************************************************************)
(* C15: pass 1 is over for all mapping keys before pass 2 reads the        *)
(* processed set, so no standalone entry is emitted for a service that     *)
(* any key matched.  A group's entries are in match order (registry        *)
(* order) and, within a match, in functionIds order; in each category the  *)
(* matched groups are in mapping order and precede the standalone groups.  *)
(***************************************************************************)
RegPos(S) == CHOOSE i \in 1..Len(services_dict) : services_dict[i][1] = S

MapPos(k) == CHOOSE i \in 1..Len(service_function_ids) : service_function_ids[i][1] = k

C15_PassOrder ==
    /\ HistoryMatchesCatalog
    /\ (pc \in { "pass2", "done" } \/ si > 0) =>
          /\ gi = Len(service_function_ids)
          /\ processed_services = { S \in RegistryNames : KeysResolvingTo(S) # {} }
    /\ \A i, j \in 1..Len(emitted) : i < j => emitted[i].pass <= emitted[j].pass
    /\ \A e \in Range(emitted) : e.pass = 2 => KeysResolvingTo(e.service) = {}
    /\ catalog # <<>> =>
          \A c \in Categories : \A a, b \in 1..Len(catalog[c]) :
              (a < b /\ catalog[c][b][1] \in MappingKeys) =>
                  /\ catalog[c][a][1] \in MappingKeys
                  /\ MapPos(catalog[c][a][1]) < MapPos(catalog[c][b][1])
    /\ \A c \in Categories : \A g \in MappingKeys :
          LET ev == EventsIn(c, g)
              fids == DictGet(service_function_ids, g)
          IN  \A a, b \in 1..Len(ev) :
                  a < b =>
                     /\ RegPos(ev[a].service) <= RegPos(ev[b].service)
                     /\ (ev[a].service = ev[b].service) =>
                           \E p, q \in 1..Len(fids) :
                               p < q /\ ev[a].fid = << fids[p] >> /\ ev[b].fid = << fids[q] >>

\* registry GA, G B and the key G: the matched group G precedes the group GA
C15_Witness ==
    /\ pc = "done"
    /\ DictKeys(services_dict) = << GA, G_B >>
    /\ DictKeys(catalog.REST) = << G, GA >>
    /\ Len(DictGet(catalog.REST, G)) = 3

\* keys GA, G in mapping order although the registry holds G B before GA
C15_WitnessMappingOrder ==
    /\ pc = "done"
    /\ DictKeys(services_dict) = << G_B, GA >>
    /\ DictKeys(catalog.REST) = << GA, G >>

(***************************************************************************)
(* C16: after generate_api_catalog a service has a standalone entry iff    *)
(* it is not in the processed set, i.e. no mapping key matched it; every   *)
(* standalone group is keyed by the service name, holds exactly one entry  *)
(* and shares its key with no matched group of either category.            *)
(***************************************************************************)
C16_StandaloneIffUnprocessed ==
    /\ HistoryMatchesCatalog
    /\ pc = "done" =>
          \A S \in RegistryNames :
              /\ (\E e \in Range(emitted) : e.pass = 2 /\ e.service = S)
                    <=> S \notin processed_services
              /\ S \notin processed_services <=> KeysResolvingTo(S) = {}
    /\ \A e \in Range(emitted) :
          e.pass = 2 =>
              /\ e.group = e.service
              /\ GroupLen(e.category, e.group) = 1
              /\ DictGet(catalog[e.category], e.group) = << e.entry >>
              /\ \A x \in Range(emitted) : x.pass = 1 => x.group # e.group
              /\ e.group \notin MappingKeys

\* the key G matches G A by prefix; GA, which only starts with G, is standalone
C16_Witness ==
    /\ pc = "done"
    /\ RegistryNames = { G_A, GA }
    /\ DictKeys(service_function_ids) = << G >>
    /\ processed_services = { G_A }
    /\ \E e \in Range(emitted) : e.pass = 2 /\ e.service = GA

(***************************************************************************)
(* update_target_url.py                                                    *)
(*                                                                         *)
(* A line is the sequence of its characters, its line break "\n"           *)
(* included, as readlines() returns it.                                    *)
(***************************************************************************)
MaxLines == 4

\* pat in s
HasSub(s, pat) ==
    \E i \in 1..(Len(s) + 1) :
        i + Len(pat) - 1 <= Len(s) /\ SubSeq(s, i, i + Len(pat) - 1) = pat

\* s.split(pat)[0] when pat occurs in s: the text before its first occurrence
BeforeFirst(s, pat) ==
    LET i == CHOOSE k \in 1..Len(s) :
                /\ k + Len(pat) - 1 <= Len(s)
                /\ SubSeq(s, k, k + Len(pat) - 1) = pat
                /\ \A j \in 1..(k-1) : SubSeq(s, j, j + Len(pat) - 1) # pat
    IN  SubSeq(s, 1, i - 1)

\* the characters str.lstrip() removes, among those of the model
Whitespace == { " ", "\t", "\n" }

\* line[:len(line) - len(line.lstrip())]
LeadingWhitespace(line) ==
    LET n == CHOOSE k \in 0..Len(line) :
                /\ \A j \in 1..k : line[j] \in Whitespace
                /\ k < Len(line) => line[k + 1] \notin Whitespace
    IN  SubSeq(line, 1, n)

TARGET_URL == << "t", "a", "r", "g", "e", "t", "-", "u", "r", "l", ":" >>
VALUE == << "v", "a", "l", "u", "e", ":" >>
FOLDED == << ">", "-" >>

\* f"{indent}value: {new_url}\n"
InlineValueLine(line, url) ==
    BeforeFirst(line, VALUE) \o VALUE \o << " " >> \o url \o << "\n" >>

\* f"{indent}{new_url}\n"
BlockValueLine(line, url) == LeadingWhitespace(line) \o url \o << "\n" >>

\* the lines files are made of, without their line break
LineBodies ==
    { << "t", "a", "r", "g", "e", "t", "-", "u", "r", "l", ":" >>,
      << " ", " ", "v", "a", "l", "u", "e", ":", " ", ">", "-" >>,
      << " ", " ", " ", " ", "o" >>,
      << " ", " ", "v", "a", "l", "u", "e", ":", " ", "o" >>,
      << " " >>,
      << "x", ":", " ", "1" >>,
      << "t", "a", "r", "g", "e", "t", "-", "u", "r", "l", ":", " ", "v", "a", "l", "u", "e", ":", " ", "o" >> }

NewUrls == { << "n" >>, << "o" >> }

\* readlines(): every line ends with its line break, the last one possibly not
FilesRead ==
    { [i \in 1..Len(b) |-> IF i < Len(b) \/ nl THEN b[i] \o << "\n" >> ELSE b[i]] :
        b \in SeqsUpTo(LineBodies, MaxLines) \ { <<>> }, nl \in BOOLEAN }
    \cup { <<>> }

InitUpdate ==
    /\ pc = "update"
    /\ file \in FilesRead
    /\ lines = file
    /\ new_url \in NewUrls
    /\ li = 0
    /\ new_lines = <<>>
    /\ in_target_url = FALSE
    /\ in_value_block = FALSE
    /\ updated = FALSE
    /\ returned = <<>>
    /\ services_array = <<>>
    /\ service_function_ids = <<>>
    /\ services_dict = <<>>
    /\ vi = 0
    /\ missing_keys = <<>>
    /\ matches = <<>>
    /\ valid = <<>>
    /\ catalog = <<>>
    /\ processed_services = {}
    /\ gi = 0
    /\ si = 0
    /\ emitted = <<>>
    /\ output_file = <<>>
    /\ exit_status = <<>>
    /\ original_schema = <<>>
    /\ function_id = <<>>
    /\ modified_schema = <<>>
    /\ service_name = <<>>

\* variant: an inline value is replaced whether or not a target-url line was seen
UpdateLineAnyValue ==
    /\ pc = "update"
    /\ li < Len(lines)
    /\ LET line == lines[li + 1]
       IN  IF HasSub(line, TARGET_URL)
           THEN /\ in_target_url' = TRUE
                /\ new_lines' = Append(new_lines, line)
                /\ UNCHANGED << in_value_block, updated >>
           ELSE IF HasSub(line, VALUE) /\ in_target_url /\ HasSub(line, FOLDED)
           THEN /\ in_value_block' = TRUE
                /\ new_lines' = Append(new_lines, line)
                /\ UNCHANGED << in_target_url, updated >>
           ELSE IF HasSub(line, VALUE)
           THEN /\ new_lines' = Append(new_lines, InlineValueLine(line, new_url))
                /\ in_target_url' = FALSE
                /\ updated' = TRUE
                /\ UNCHANGED in_value_block
           ELSE IF in_value_block
           THEN /\ new_lines' = Append(new_lines, BlockValueLine(line, new_url))
                /\ in_value_block' = FALSE
                /\ in_target_url' = FALSE
                /\ updated' = TRUE
           ELSE /\ new_lines' = Append(new_lines, line)
                /\ UNCHANGED << in_target_url, in_value_block, updated >>
    /\ li' = li + 1
    /\ UNCHANGED << lines, new_url, file, returned >>
    /\ UNCHANGED catalogVars

\* update_target_url: one iteration of the loop over the lines
UpdateLine ==
    /\ pc = "update"
    /\ li < Len(lines)
    /\ LET line == lines[li + 1]
       IN  IF HasSub(line, TARGET_URL)
           THEN /\ in_target_url' = TRUE
                /\ new_lines' = Append(new_lines, line)
                /\ UNCHANGED << in_value_block, updated >>
           ELSE IF in_target_url /\ HasSub(line, VALUE) /\ HasSub(line, FOLDED)
           THEN /\ in_value_block' = TRUE
                /\ new_lines' = Append(new_lines, line)
                /\ UNCHANGED << in_target_url, updated >>
           ELSE IF in_target_url /\ HasSub(line, VALUE)
           THEN /\ new_lines' = Append(new_lines, InlineValueLine(line, new_url))
                /\ in_target_url' = FALSE
                /\ updated' = TRUE
                /\ UNCHANGED in_value_block
           ELSE IF in_value_block
           THEN /\ new_lines' = Append(new_lines, BlockValueLine(line, new_url))
                /\ in_value_block' = FALSE
                /\ in_target_url' = FALSE
                /\ updated' = TRUE
           ELSE /\ new_lines' = Append(new_lines, line)
                /\ UNCHANGED << in_target_url, in_value_block, updated >>
    /\ li' = li + 1
    /\ UNCHANGED << lines, new_url, file, returned >>
    /\ UNCHANGED catalogVars

\* update_target_url: the lines are written back and the result is returned
UpdateReturn ==
    /\ pc = "update"
    /\ li = Len(lines)
    /\ file' = new_lines
    /\ returned' = << IF updated THEN 0 ELSE 1 >>
    /\ pc' = "returned"
    /\ UNCHANGED << services_array, service_function_ids, services_dict, vi,
                    missing_keys, matches, valid, catalog, processed_services, gi, si,
                    emitted, output_file, exit_status, original_schema, function_id,
                    modified_schema, service_name >>
    /\ UNCHANGED << lines, new_url, li, new_lines, in_target_url, in_value_block,
                    updated >>

NextUpdate ==
    \/ UpdateLine
    \/ UpdateReturn

SpecUpdate == InitUpdate /\ [][NextUpdate]_vars

(***************************************************************************)
(* Notions for the properties of update_target_url.                        *)
(***************************************************************************)
\* a 'target-url:' line comes before line i
AfterTargetUrl(i) == \E j \in 1..(i-1) : HasSub(lines[j], TARGET_URL)

\* line i is an inline 'value:' line
IsInlineValue(i) == HasSub(lines[i], VALUE) /\ ~HasSub(lines[i], FOLDED)

\* line i is a 'value: >-' line
IsFoldedValue(i) == HasSub(lines[i], VALUE) /\ HasSub(lines[i], FOLDED)

\* the number of lines of a file made of the strings ls
NumLines(ls) ==
    Cardinality(UNION { { << i, j >> : j \in { k \in 1..Len(ls[i]) : ls[i][k] = "\n" } } :
                        i \in 1..Len(ls) })
    + (IF ls # <<>> /\ ls[Len(ls)][Len(ls[Len(ls)])] # "\n" THEN 1 ELSE 0)

\* the result is 0 exactly when a line was replaced by one that holds new_url
ResultTellsReplacement ==
    /\ returned \in { << 0 >>, << 1 >> }
    /\ returned = << 0 >> =>
          \E i \in 1..Len(lines) :
              \/ HasSub(lines[i], VALUE) /\ file[i] = InlineValueLine(lines[i], new_url)
              \/ file[i] = BlockValueLine(lines[i], new_url)
    /\ returned = << 1 >> => file = lines

(***************************************************************************)
(* C17, as claimed: update_target_url returns 0 only if it replaced a      *)
(* value and 1 otherwise; the output has as many lines as the input; a     *)
(* line that changes is an inline 'value:' line after a 'target-url:'      *)
(* line, or the line directly after a 'value: >-' line that is after a     *)
(* 'target-url:' line; every other line is written back unchanged.         *)
(***************************************************************************)
C17_OnlyValueLinesChange ==
    pc = "returned" =>
        /\ ResultTellsReplacement
        /\ Len(file) = Len(lines)
        /\ NumLines(file) = NumLines(lines)
        /\ \A i \in 1..Len(lines) :
              file[i] # lines[i] =>
                  \/ AfterTargetUrl(i) /\ IsInlineValue(i)
                  \/ i > 1 /\ IsFoldedValue(i - 1) /\ AfterTargetUrl(i - 1)

(***************************************************************************)
(* C17, amended: update_target_url returns 0 only if it replaced a value   *)
(* and 1 otherwise; it writes one string per input line.  A line that      *)
(* changes has no 'target-url:', comes after a 'target-url:' line, and is  *)
(* an inline 'value:' line, or comes after a 'value: >-' line (itself      *)
(* after a 'target-url:' line) with only lines holding 'target-url:' or    *)
(* 'value:' in between, so not always directly after it.  Every other      *)
(* line is written back unchanged.  The output has as many lines as the    *)
(* input plus one for each changed line that was whitespace only and       *)
(* ended with a line break, which is kept in front of the new url.         *)
(***************************************************************************)
WhitespaceOnlyWithBreak(line) ==
    /\ \A j \in 1..Len(line) : line[j] \in Whitespace
    /\ line # <<>> /\ line[Len(line)] = "\n"

C17_ChangedLinesFollowTheValueLine ==
    pc = "returned" =>
        /\ ResultTellsReplacement
        /\ Len(file) = Len(lines)
        /\ NumLines(file) =
              NumLines(lines)
              + Cardinality({ i \in 1..Len(lines) :
                                file[i] # lines[i] /\ WhitespaceOnlyWithBreak(lines[i]) })
        /\ \A i \in 1..Len(lines) :
              file[i] # lines[i] =>
                  /\ ~HasSub(lines[i], TARGET_URL)
                  /\ AfterTargetUrl(i)
                  /\ \/ IsInlineValue(i) /\ file[i] = InlineValueLine(lines[i], new_url)
                     \/ /\ file[i] = BlockValueLine(lines[i], new_url)
                        /\ \E j \in 1..(i-1) :
                              /\ IsFoldedValue(j)
                              /\ AfterTargetUrl(j)
                              /\ \A m \in (j+1)..(i-1) :
                                    HasSub(lines[m], TARGET_URL) \/ HasSub(lines[m], VALUE)

\* target-url:, value: >-, an inline value, another property: both are replaced
C17_Witness ==
    /\ pc = "returned"
    /\ returned = << 0 >>
    /\ Len(lines) = 4
    /\ HasSub(lines[1], TARGET_URL)
    /\ IsFoldedValue(2)
    /\ IsInlineValue(3)
    /\ lines[4] = << "x", ":", " ", "1", "\n" >>
    /\ new_url = << "n" >>
    /\ file[3] = << " ", " ", "v", "a", "l", "u", "e", ":", " ", "n", "\n" >>
    /\ file[4] = << "n", "\n" >>

\* a whitespace-only line after value: >- keeps its line break before the url
C17_WitnessBlankLine ==
    /\ pc = "returned"
    /\ Len(lines) = 3
    /\ IsFoldedValue(2)
    /\ lines[3] = << " ", "\n" >>
    /\ file[3] = << " ", "\n", "n", "\n" >>
    /\ NumLines(file) = 4

\* the usual file: the url line directly after value: >- is replaced, result 0
C17_WitnessTemplate ==
    /\ pc = "returned"
    /\ returned = << 0 >>
    /\ lines = << << "t", "a", "r", "g", "e", "t", "-", "u", "r", "l", ":", "\n" >>,
                 << " ", " ", "v", "a", "l", "u", "e", ":", " ", ">", "-", "\n" >>,
                 << " ", " ", " ", " ", "o", "\n" >>,
                 << "x", ":", " ", "1", "\n" >> >>
    /\ new_url = << "n" >>
    /\ file = << lines[1], lines[2], << " ", " ", " ", " ", "n", "\n" >>, lines[4] >>

====
